---- MODULE Spec2Model ----
(***************************************************************************)
(* Model of app.py, the Streamlit page of the Synthetic Data Generator.    *)
(* One user interaction re-runs the script top to bottom.  The script is   *)
(* modelled statement group by statement group (pc is the position in the  *)
(* script); the deepeval Synthesizer and the Streamlit calls are opaque    *)
(* collaborators whose results and exceptions are nondeterministic.        *)
(***************************************************************************)
EXTENDS Integers, Sequences, FiniteSets, TLC

\* ---------------------------------------------------------------- bounds
MaxFiles   == 2      \* most uploads in one interaction
MaxGoldens == 2      \* most goldens the collaborator leaves in synthetic_goldens
MaxN       == 5      \* largest slider value explored (the slider goes 1..50)

\* ------------------------------------------------------------- the slider
SliderMin     == 1
SliderDefault == 5

\* ------------------------------------------------------ values of fields
None     == "<None>"      \* Python None
Absent   == "<absent>"    \* the attribute does not exist (hasattr is False)
EmptyMap == "{}"          \* an empty mapping
NoExc    == "<no exception>"
NoFile   == -1            \* no file of that name in the temporary directory
Partial  == 0             \* a file opened "wb" whose write did not complete

Styling == "Generate from styling configuration"
Docs    == "Generate from documents"
Methods == {Styling, Docs}

FileNames    == {"a.txt", "b.txt"}
FileContents == {1, 2}
UploadedFile == [name : FileNames, content : FileContents]

OptionalKeys == {"expected_output", "context", "additional_metadata", "source_file"}

\* Python truthiness of a field value (`golden.context` used as a condition)
Truthy(v) == v \notin {Absent, None, "", EmptyMap}

\* hasattr(golden, k)
HasAttr(golden, k) == golden[k] # Absent

AllGoldens ==
    [input : {"", "q1"}, expected_output : {None, "a1"}, context : {None, "c1"},
     additional_metadata : {EmptyMap, "m1"}, source_file : {Absent, "f1"}]

\* the goldens the collaborator may return: none, one or all of the optional
\* fields populated, with an empty or a non-empty input
GoldenSet ==
    {g \in AllGoldens : Cardinality({k \in OptionalKeys : Truthy(g[k])}) \in {0, 1, 4}}

SeqsUpTo(S, n) == UNION {[1..k -> S] : k \in 0..n}

VARIABLES
    pc,                 \* position of the script run
    generation_method,  \* st.sidebar.radio
    num_goldens,        \* st.slider
    uploaded_files,     \* st.file_uploader
    button,             \* st.button("Generate Data") of this run
    temp_dir,           \* TRUE while the TemporaryDirectory exists
    fs,                 \* contents of the temporary directory, by file name
    file_paths,         \* paths collected by the upload loop
    synthetic_goldens,  \* synthesizer.synthetic_goldens
    returned,           \* what the collaborator left in synthetic_goldens
    panels,             \* the "Example i" expanders rendered
    json_data,          \* list of dicts built for export
    json_str,           \* json.dumps(json_data)
    download,           \* file_name of the download button, or None
    errors,             \* st.error messages rendered, in order
    warnings,           \* st.warning messages rendered, in order
    raised,             \* text of the exception raised in this run, or NoExc
    scratch_calls,      \* generate_goldens_from_scratch calls in this run
    docs_calls,         \* generate_goldens_from_docs calls in this run
    call_arg,           \* argument of the collaborator call
    call_fs             \* the temporary directory as the collaborator saw it

vars == <<pc, generation_method, num_goldens, uploaded_files, button,
          temp_dir, fs,
          file_paths, synthetic_goldens, returned, panels, json_data, json_str,
          download, errors, warnings, raised, scratch_calls, docs_calls,
          call_arg, call_fs>>

inputs  == <<generation_method, num_goldens, uploaded_files, button>>
tmp     == <<temp_dir, fs, file_paths>>
goldens == <<synthetic_goldens, returned>>
export  == <<json_data, json_str, download>>
output  == <<panels, errors, warnings>>
calls   == <<scratch_calls, docs_calls, call_arg, call_fs>>

EmptyDir == [n \in FileNames |-> NoFile]

WarningMsg == "No synthetic data was generated. This might happen if the documents couldn't be processed properly."
ApiKeyMsg  == "Make sure you have the required API key set if needed."
ErrorMsg(text) == "Error generating synthetic data: " \o text

Init ==
    /\ pc = "idle"
    /\ generation_method = Styling
    /\ num_goldens = SliderDefault
    /\ uploaded_files = <<>>
    /\ button = FALSE
    /\ temp_dir = FALSE
    /\ fs = EmptyDir
    /\ file_paths = <<>>
    /\ synthetic_goldens = <<>>
    /\ returned = <<>>
    /\ panels = <<>>
    /\ json_data = <<>>
    /\ json_str = <<>>
    /\ download = None
    /\ errors = <<>>
    /\ warnings = <<>>
    /\ raised = NoExc
    /\ scratch_calls = 0
    /\ docs_calls = 0
    /\ call_arg = <<>>
    /\ call_fs = EmptyDir

\* ------------------------------------------------------------ pure parts

\* one dict as the ordered list of its (key, value) items
Item(k, v) == <<k, v>>

\* a bug: the styling export copies the expected output as well
StylingRecordWithOutput(golden) ==
    << Item("input", golden.input), Item("expected_output", golden.expected_output) >>

\* lines 90-92: the dict appended for one golden in styling mode
StylingRecord(golden) == << Item("input", golden.input) >>

\* a bug: the context is copied without the emptiness test
DocsRecordNoTest(golden) ==
    LET base == << Item("input", golden.input),
                   Item("expected_output", golden.expected_output) >>
        c == Append(base, Item("context", golden.context))
        m == IF HasAttr(golden, "additional_metadata") /\ Truthy(golden.additional_metadata)
             THEN Append(c, Item("additional_metadata", golden.additional_metadata)) ELSE c
        s == IF HasAttr(golden, "source_file") /\ Truthy(golden.source_file)
             THEN Append(m, Item("source_file", golden.source_file)) ELSE m
    IN  s

\* lines 163-174: the dict built for one golden in document mode
DocsRecord(golden) ==
    LET base == << Item("input", golden.input),
                   Item("expected_output", golden.expected_output) >>
        c == IF HasAttr(golden, "context") /\ Truthy(golden.context)
             THEN Append(base, Item("context", golden.context)) ELSE base
        m == IF HasAttr(golden, "additional_metadata") /\ Truthy(golden.additional_metadata)
             THEN Append(c, Item("additional_metadata", golden.additional_metadata)) ELSE c
        s == IF HasAttr(golden, "source_file") /\ Truthy(golden.source_file)
             THEN Append(m, Item("source_file", golden.source_file)) ELSE m
    IN  s

\* lines 88-92: json_data of styling mode
StylingJsonData(gs) == [i \in DOMAIN gs |-> StylingRecord(gs[i])]

\* a bug: the export list is built by inserting at the front
DocsJsonDataReversed(gs) == [i \in DOMAIN gs |-> DocsRecord(gs[Len(gs) + 1 - i])]

\* lines 161-176: json_data of document mode
DocsJsonData(gs) == [i \in DOMAIN gs |-> DocsRecord(gs[i])]

\* json.dumps of one value: None becomes null, a string is quoted
JsonValue(v) == IF v = None THEN "null" ELSE "\"" \o v \o "\""

\* json.dumps of a list of dicts: same order of elements and of keys
Dumps(data) ==
    [i \in DOMAIN data |->
        [j \in DOMAIN data[i] |-> Item(data[i][j][1], JsonValue(data[i][j][2]))]]

\* lines 82-84: the expander of the i-th golden in styling mode
StylingPanel(i, golden) ==
    [title |-> <<"Example", i>>, body |-> << golden.input >>]

\* lines 143-157: the expander of the i-th golden in document mode
DocsPanel(i, golden) ==
    LET base == << "**Input:**", golden.input,
                   "**Expected Output:**", golden.expected_output >>
        c == IF HasAttr(golden, "context") /\ Truthy(golden.context)
             THEN base \o << "**Context:**", golden.context >> ELSE base
        m == IF HasAttr(golden, "additional_metadata") /\ Truthy(golden.additional_metadata)
             THEN c \o << "**Additional Metadata:**", golden.additional_metadata >> ELSE c
    IN  [title |-> <<"Example", i>>, body |-> m]

\* os.path.join(temp_dir, uploaded_file.name), relative to the directory
FilePath(uploaded_file) == uploaded_file.name

\* ---------------------------------------------------------- the script

\* a bug: the document branch tests only the button
TriggeredNoUploadTest(method, files, pressed) == pressed

\* line 58 `if st.button(...)` and line 113 `if uploaded_files and st.button(...)`
Triggered(method, files, pressed) ==
    IF method = Styling THEN pressed ELSE files # <<>> /\ pressed

\* every script run renders the page anew: the elements and the script
\* variables of the previous run are gone (the temporary directory is on
\* disk and is not touched)
NewRun ==
    /\ file_paths' = <<>>
    /\ synthetic_goldens' = <<>>
    /\ returned' = <<>>
    /\ panels' = <<>>
    /\ json_data' = <<>>
    /\ json_str' = <<>>
    /\ download' = None
    /\ errors' = <<>>
    /\ warnings' = <<>>
    /\ raised' = NoExc
    /\ scratch_calls' = 0
    /\ docs_calls' = 0
    /\ call_arg' = <<>>
    /\ call_fs' = EmptyDir
    /\ UNCHANGED <<temp_dir, fs>>

\* lines 28-31: the user picks the other method; the script runs without the
\* button pressed and the widgets of the new branch start at their defaults
SelectMethod ==
    /\ pc = "idle"
    /\ \E method \in Methods \ {generation_method} : generation_method' = method
    /\ num_goldens' = SliderDefault
    /\ uploaded_files' = <<>>
    /\ button' = FALSE
    /\ pc' = "sidebar"
    /\ NewRun

\* line 56: the user moves the slider; the script runs without the button
MoveSlider ==
    /\ pc = "idle"
    /\ generation_method = Styling
    /\ \E n \in (SliderMin..MaxN) \ {num_goldens} : num_goldens' = n
    /\ button' = FALSE
    /\ pc' = "sidebar"
    /\ UNCHANGED <<generation_method, uploaded_files>>
    /\ NewRun

\* line 111: the user adds a file to the uploader; the script runs without
\* the button
UploadFile ==
    /\ pc = "idle"
    /\ generation_method = Docs
    /\ Len(uploaded_files) < MaxFiles
    /\ \E f \in UploadedFile : uploaded_files' = Append(uploaded_files, f)
    /\ button' = FALSE
    /\ pc' = "sidebar"
    /\ UNCHANGED <<generation_method, num_goldens>>
    /\ NewRun

\* lines 58 and 113: the user presses "Generate Data" (in document mode the
\* button is rendered only when the test before it passes) and the script
\* enters the generation action of the selected method
PressButton ==
    /\ pc = "idle"
    /\ Triggered(generation_method, uploaded_files, TRUE)
    /\ button' = TRUE
    /\ pc' = IF generation_method = Styling THEN "construct" ELSE "tempdir"
    /\ UNCHANGED <<generation_method, num_goldens, uploaded_files>>
    /\ NewRun

\* an exception raised inside the try block: in document mode it first
\* leaves the `with tempfile.TemporaryDirectory()` block (lines 116, 189),
\* in styling mode it goes straight to the handler (line 105)
Raise(text) ==
    /\ raised' = text
    /\ pc' = IF generation_method = Docs /\ temp_dir THEN "cleanup" ELSE "except"

\* line 116: the temporary directory is created
MakeTempDir ==
    /\ pc = "tempdir"
    /\ \/ /\ temp_dir' = TRUE
          /\ fs' = EmptyDir
          /\ pc' = "write"
          /\ UNCHANGED raised
       \/ /\ Raise("mkdtemp")
          /\ UNCHANGED <<temp_dir, fs>>
    /\ UNCHANGED <<inputs, file_paths, goldens, export, output, calls>>

\* lines 119-124: one iteration of the upload loop
WriteFile ==
    /\ pc = "write"
    /\ Len(file_paths) < Len(uploaded_files)
    /\ LET uploaded_file == uploaded_files[Len(file_paths) + 1]
           file_path == FilePath(uploaded_file)
       IN  \/ /\ fs' = [fs EXCEPT ![file_path] = uploaded_file.content]
              /\ file_paths' = Append(file_paths, file_path)
              /\ UNCHANGED <<pc, raised>>
           \/ /\ Raise("write")     \* open() or write() failed
              /\ fs' \in {fs, [fs EXCEPT ![file_path] = Partial]}
              /\ UNCHANGED file_paths
    /\ UNCHANGED <<inputs, temp_dir, goldens, export, output, calls>>

\* line 125: the loop is over
WriteDone ==
    /\ pc = "write"
    /\ Len(file_paths) = Len(uploaded_files)
    /\ pc' = "construct"
    /\ UNCHANGED <<inputs, tmp, goldens, export, output, raised, calls>>

\* lines 62-72 (StylingConfig and Synthesizer) and line 127 (Synthesizer)
Construct ==
    /\ pc = "construct"
    /\ \/ pc' = "call" /\ UNCHANGED raised
       \/ Raise("construct")
    /\ UNCHANGED <<inputs, tmp, goldens, export, output, calls>>

\* a bug: a failed call is retried once
GenerateFromScratchRetry ==
    /\ pc = "call"
    /\ generation_method = Styling
    /\ scratch_calls' = scratch_calls + 1
    /\ call_arg' = <<num_goldens>>
    /\ \/ \E gs \in SeqsUpTo(GoldenSet, MaxGoldens) :
             /\ synthetic_goldens' = gs
             /\ returned' = gs
             /\ pc' = "display"
             /\ UNCHANGED raised
       \/ /\ scratch_calls = 0
          /\ UNCHANGED <<pc, raised, goldens>>
       \/ /\ scratch_calls > 0
          /\ Raise("generate_goldens_from_scratch")
          /\ UNCHANGED goldens
    /\ UNCHANGED <<inputs, tmp, export, output, docs_calls, call_fs>>

\* lines 75-78: generate_goldens_from_scratch(num_goldens=num_goldens)
GenerateFromScratch ==
    /\ pc = "call"
    /\ generation_method = Styling
    /\ scratch_calls' = scratch_calls + 1
    /\ call_arg' = <<num_goldens>>
    /\ \/ \E gs \in SeqsUpTo(GoldenSet, MaxGoldens) :
             /\ synthetic_goldens' = gs
             /\ returned' = gs
             /\ pc' = "display"
             /\ UNCHANGED raised
       \/ /\ Raise("generate_goldens_from_scratch")
          /\ UNCHANGED goldens
    /\ UNCHANGED <<inputs, tmp, export, output, docs_calls, call_fs>>

\* lines 130-135: generate_goldens_from_docs(document_paths=file_paths)
GenerateFromDocs ==
    /\ pc = "call"
    /\ generation_method = Docs
    /\ docs_calls' = docs_calls + 1
    /\ call_arg' = file_paths
    /\ call_fs' = fs
    /\ \/ \E gs \in SeqsUpTo(GoldenSet, MaxGoldens) :
             /\ synthetic_goldens' = gs
             /\ returned' = gs
             /\ pc' = "display"
             /\ UNCHANGED raised
       \/ /\ Raise("generate_goldens_from_docs")
          /\ UNCHANGED goldens
    /\ UNCHANGED <<inputs, tmp, export, output, scratch_calls>>

\* the first k elements of a sequence
Prefix(seq, k) == [i \in 1..k |-> seq[i]]

\* lines 81-84: the styling-mode display loop; a Streamlit call that raises
\* leaves the expanders rendered before it on the page
DisplayStyling ==
    /\ pc = "display"
    /\ generation_method = Styling
    /\ LET all == [i \in DOMAIN synthetic_goldens |->
                      StylingPanel(i, synthetic_goldens[i])]
       IN  \/ /\ panels' = all
              /\ pc' = "export"
              /\ UNCHANGED raised
           \/ \E k \in 0..Len(all) :
                 /\ k = 0 \/ k < Len(all)
                 /\ panels' = Prefix(all, k)
                 /\ Raise("display")
    /\ UNCHANGED <<inputs, tmp, goldens, export, errors, warnings, calls>>

\* a bug: no test for an empty result, as in styling mode
DisplayDocsNoEmptyTest ==
    /\ pc = "display"
    /\ generation_method = Docs
    /\ LET all == [i \in DOMAIN synthetic_goldens |->
                      DocsPanel(i, synthetic_goldens[i])]
       IN  \/ /\ panels' = all
              /\ pc' = "export"
              /\ UNCHANGED raised
           \/ \E k \in 0..Len(all) :
                 /\ k = 0 \/ k < Len(all)
                 /\ panels' = Prefix(all, k)
                 /\ Raise("display")
    /\ UNCHANGED <<inputs, tmp, goldens, export, errors, warnings, calls>>

\* lines 138-157: the document-mode display; an empty result is a warning
\* and ends the `with` block, otherwise one expander per golden
DisplayDocs ==
    /\ pc = "display"
    /\ generation_method = Docs
    /\ LET all == [i \in DOMAIN synthetic_goldens |->
                      DocsPanel(i, synthetic_goldens[i])]
       IN  \/ /\ synthetic_goldens = <<>>
              /\ warnings' = Append(warnings, WarningMsg)
              /\ pc' = "cleanup"
              /\ UNCHANGED <<panels, raised>>
           \/ /\ synthetic_goldens # <<>>
              /\ panels' = all
              /\ pc' = "export"
              /\ UNCHANGED <<warnings, raised>>
           \/ \E k \in 0..Len(all) :
                 /\ k = 0 \/ k < Len(all)
                 /\ panels' = Prefix(all, k)
                 /\ Raise("display")
                 /\ UNCHANGED warnings
    /\ UNCHANGED <<inputs, tmp, goldens, export, errors, calls>>

\* lines 88-92: json_data of styling mode is built
ExportStyling ==
    /\ pc = "export"
    /\ generation_method = Styling
    /\ json_data' = StylingJsonData(synthetic_goldens)
    /\ pc' = "dumps"
    /\ UNCHANGED <<inputs, tmp, goldens, json_str, download, output, raised, calls>>

\* lines 161-176: json_data of document mode is built
ExportDocs ==
    /\ pc = "export"
    /\ generation_method = Docs
    /\ json_data' = DocsJsonData(synthetic_goldens)
    /\ pc' = "dumps"
    /\ UNCHANGED <<inputs, tmp, goldens, json_str, download, output, raised, calls>>

\* lines 95 and 179: json.dumps(json_data, indent=2)
DumpsJson ==
    /\ pc = "dumps"
    /\ \/ /\ json_str' = Dumps(json_data)
          /\ pc' = "download"
          /\ UNCHANGED raised
       \/ /\ Raise("dumps")
          /\ UNCHANGED json_str
    /\ UNCHANGED <<inputs, tmp, goldens, json_data, download, output, calls>>

\* file_name of the download button, lines 101 and 185
DownloadName(method) ==
    IF method = Styling THEN "synthetic_data.json"
                        ELSE "synthetic_data_from_docs.json"

\* lines 98-103 and 182-187: st.download_button; the last statement of the
\* try block (styling) or of the `with` block (documents)
Download ==
    /\ pc = "download"
    /\ \/ /\ download' = DownloadName(generation_method)
          /\ pc' = IF generation_method = Docs THEN "cleanup" ELSE "sidebar"
          /\ UNCHANGED raised
       \/ /\ Raise("download_button")
          /\ UNCHANGED download
    /\ UNCHANGED <<inputs, tmp, goldens, json_data, json_str, output, calls>>

\* a bug: the directory is removed by a statement at the end of the block,
\* which an exception skips
CleanupOnSuccessOnly ==
    /\ pc = "cleanup"
    /\ temp_dir' = (raised # NoExc)
    /\ fs' = IF raised # NoExc THEN fs ELSE EmptyDir
    /\ pc' = IF raised # NoExc THEN "except" ELSE "sidebar"
    /\ UNCHANGED <<inputs, file_paths, goldens, export, output, raised, calls>>

\* line 116, leaving the `with` block normally or by an exception:
\* TemporaryDirectory.__exit__ removes the directory and everything in it
Cleanup ==
    /\ pc = "cleanup"
    /\ temp_dir' = FALSE
    /\ fs' = EmptyDir
    /\ pc' = IF raised # NoExc THEN "except" ELSE "sidebar"
    /\ UNCHANGED <<inputs, file_paths, goldens, export, output, raised, calls>>

\* a bug: the handler drops the text of the exception
HandlerNoText(method, text) ==
    IF method = Styling THEN << ErrorMsg("") >>
                        ELSE << ErrorMsg(""), ApiKeyMsg >>

\* the st.error calls of the handler, lines 106 and 190-191
Handler(method, text) ==
    IF method = Styling THEN << ErrorMsg(text) >>
                        ELSE << ErrorMsg(text), ApiKeyMsg >>

\* lines 105-106 and 189-191: except Exception as e
Except ==
    /\ pc = "except"
    /\ errors' = errors \o Handler(generation_method, raised)
    /\ pc' = "sidebar"
    /\ UNCHANGED <<inputs, tmp, goldens, export, panels, warnings, raised, calls>>

\* lines 193-203: the sidebar is rendered and the script run ends
Sidebar ==
    /\ pc = "sidebar"
    /\ pc' = "idle"
    /\ UNCHANGED <<inputs, tmp, goldens, export, output, raised, calls>>

Next ==
    \/ SelectMethod
    \/ MoveSlider
    \/ UploadFile
    \/ PressButton
    \/ MakeTempDir
    \/ WriteFile
    \/ WriteDone
    \/ Construct
    \/ GenerateFromScratch
    \/ GenerateFromDocs
    \/ DisplayStyling
    \/ DisplayDocs
    \/ ExportStyling
    \/ ExportDocs
    \/ DumpsJson
    \/ Download
    \/ Cleanup
    \/ Except
    \/ Sidebar

Spec == Init /\ [][Next]_vars

TypeOK ==
    /\ pc \in {"idle", "tempdir", "write", "construct", "call", "display",
               "export", "dumps", "download", "cleanup", "except", "sidebar"}
    /\ generation_method \in Methods
    /\ num_goldens \in SliderMin..MaxN
    /\ Len(uploaded_files) <= MaxFiles
    /\ temp_dir \in BOOLEAN
    /\ button \in BOOLEAN
    /\ Len(synthetic_goldens) <= MaxGoldens

\* ------------------------------------------------------------ properties

ExportKeys == {"input", "expected_output", "context", "additional_metadata", "source_file"}

\* the keys of one exported object
Keys(obj) == {obj[j][1] : j \in DOMAIN obj}

\* the value exported under key k
Lookup(obj, k) == obj[CHOOSE j \in DOMAIN obj : obj[j][1] = k][2]

\* the try statement of the generation action is over
Finished == pc \in {"sidebar", "idle"}

\* the input shown in a panel: first item in styling mode, second (after the
\* "**Input:**" heading) in document mode
PanelInput(panel) ==
    IF generation_method = Styling THEN panel.body[1] ELSE panel.body[2]

\* C1: once a document-mode action has left its `with` block (handler
\* running, or action over), the temporary directory and every file written
\* into it are gone, whether the action succeeded, returned no goldens or
\* raised; the directory exists only inside a document-mode action.
C1_TempFilesRemoved ==
    /\ pc \in {"except", "sidebar", "idle"} =>
          ~temp_dir /\ \A n \in FileNames : fs[n] = NoFile
    /\ temp_dir => generation_method = Docs /\ button

\* C1 witness: files had been written, the collaborator raised, the handler
\* ran and the files are gone.
C1_Witness ==
    /\ pc = "sidebar"
    /\ raised = "generate_goldens_from_docs"
    /\ \E n \in FileNames : call_fs[n] \in FileContents
    /\ errors # <<>>

\* C2 (as stated): no exported object has a key whose field was absent or
\* empty on the golden, in both modes.
C2_NoEmptyKeyExported ==
    \A i \in DOMAIN json_data : \A k \in ExportKeys :
        ~Truthy(returned[i][k]) => k \notin Keys(json_data[i])

\* C2 (amended): an exported object never has a context, additional_metadata
\* or source_file key whose field was absent or empty on the golden, and has
\* each of these keys when the field is non-empty (document mode); input, and
\* in document mode expected_output, are exported whatever their value.
C2_OptionalKeysOnlyWhenPresent ==
    \A i \in DOMAIN json_data :
        /\ "input" \in Keys(json_data[i])
        /\ generation_method = Docs =>
              /\ "expected_output" \in Keys(json_data[i])
              /\ \A k \in {"context", "additional_metadata", "source_file"} :
                    k \in Keys(json_data[i]) <=> Truthy(returned[i][k])
        /\ generation_method = Styling =>
              \A k \in {"context", "additional_metadata", "source_file"} :
                    k \notin Keys(json_data[i])

\* C2 witness: a document-mode export of a golden with an empty context and
\* a populated source_file.
C2_Witness ==
    /\ generation_method = Docs
    /\ download # None
    /\ \E i \in DOMAIN returned :
          returned[i].context = None /\ returned[i].source_file = "f1"

\* C3: panels and exported elements follow the collaborator's sequence:
\* the i-th panel is "Example i" and shows the i-th golden, the exported
\* array has one element per golden, the i-th built from the i-th golden,
\* and synthetic_goldens is never changed after the collaborator returned.
C3_OrderPreserved ==
    /\ synthetic_goldens = returned
    /\ Len(panels) <= Len(returned)
    /\ \A i \in DOMAIN panels :
          /\ panels[i].title = <<"Example", i>>
          /\ PanelInput(panels[i]) = returned[i].input
    /\ download # None =>
          /\ Len(panels) = Len(returned)
          /\ Len(json_str) = Len(returned)
          /\ \A i \in DOMAIN json_str :
                /\ Lookup(json_str[i], "input") = JsonValue(returned[i].input)
                /\ generation_method = Docs =>
                      Lookup(json_str[i], "expected_output")
                         = JsonValue(returned[i].expected_output)

\* C3 witness: a document-mode download of two different goldens.
C3_Witness ==
    /\ generation_method = Docs
    /\ download # None
    /\ Len(returned) = 2
    /\ returned[1].input # returned[2].input

\* C4: a document-mode action that ended without an exception and with zero
\* goldens shows exactly the empty-result warning, no error and no download
\* button; the warning is shown only for an empty result of a call that did
\* not fail.
C4_EmptyResultWarning ==
    /\ ( /\ Finished
         /\ generation_method = Docs
         /\ docs_calls = 1
         /\ raised = NoExc
         /\ returned = <<>> ) =>
            warnings = <<WarningMsg>> /\ errors = <<>> /\ download = None
    /\ warnings # <<>> =>
          /\ warnings = <<WarningMsg>>
          /\ generation_method = Docs
          /\ docs_calls = 1
          /\ returned = <<>>
          /\ raised = NoExc
          /\ errors = <<>>
          /\ download = None

\* C4 witness: the action is over, the collaborator was called on the
\* uploads and returned nothing.
C4_Witness ==
    /\ pc = "idle"
    /\ generation_method = Docs
    /\ docs_calls = 1
    /\ raised = NoExc
    /\ returned = <<>>
    /\ warnings # <<>>

\* C5: an exception raised anywhere in a generation action is handled inside
\* the action: the script goes on through the handler to its end, the error
\* message carries the exception text, no download button is offered, and in
\* document mode the API-key message follows; errors appear only then.
C5_ExceptionHandled ==
    /\ raised # NoExc => pc \in {"cleanup", "except", "sidebar", "idle"}
    /\ (raised # NoExc /\ Finished) =>
          /\ download = None
          /\ generation_method = Styling => errors = << ErrorMsg(raised) >>
          /\ generation_method = Docs => errors = << ErrorMsg(raised), ApiKeyMsg >>
    /\ errors # <<>> => raised # NoExc

\* C5 witness: the script ran to its end after json.dumps raised in document
\* mode, and waits for the next interaction.
C5_Witness ==
    /\ pc = "idle"
    /\ generation_method = Docs
    /\ raised = "dumps"
    /\ Len(errors) = 2

\* C6: in styling mode every exported object has the single key "input".
C6_StylingOnlyInput ==
    generation_method = Styling =>
        /\ \A i \in DOMAIN json_data :
              Len(json_data[i]) = 1 /\ Keys(json_data[i]) = {"input"}
        /\ \A i \in DOMAIN json_str :
              Len(json_str[i]) = 1 /\ Keys(json_str[i]) = {"input"}

\* C6 witness: a styling-mode download of a golden whose other fields the
\* collaborator populated.
C6_Witness ==
    /\ generation_method = Styling
    /\ download # None
    /\ \E i \in DOMAIN returned :
          returned[i].expected_output = "a1" /\ returned[i].context = "c1"

\* C7 (as stated): a successful styling-mode action displays and exports at
\* most num_goldens goldens.
C7_AtMostNumGoldens ==
    (generation_method = Styling /\ download # None) =>
        Len(panels) <= num_goldens /\ Len(json_str) <= num_goldens

\* C8 (as stated): when generate_goldens_from_docs is invoked, the path
\* passed for each upload names a file holding exactly that upload's bytes.
C8_PathsHoldUploadBytes ==
    docs_calls > 0 =>
        /\ Len(call_arg) = Len(uploaded_files)
        /\ \A i \in DOMAIN uploaded_files :
              call_fs[call_arg[i]] = uploaded_files[i].content

\* C9: within one interaction the collaborator operation is invoked at most
\* once, also after it raised.
C9_NoRetry == scratch_calls + docs_calls <= 1

\* C9 witness: the collaborator raised, the action is over and it had been
\* called once.
C9_Witness ==
    /\ pc = "idle"
    /\ raised = "generate_goldens_from_scratch"
    /\ scratch_calls = 1

\* C10: generate_goldens_from_scratch is invoked only in styling mode with
\* the button pressed, generate_goldens_from_docs only in document mode with
\* the button pressed and at least one upload, never both in one
\* interaction, and the path list has one entry per upload (so is not empty).
C10_ModesExclusive ==
    /\ ~(scratch_calls > 0 /\ docs_calls > 0)
    /\ scratch_calls > 0 => generation_method = Styling /\ button
    /\ docs_calls > 0 =>
          /\ generation_method = Docs /\ button
          /\ uploaded_files # <<>>
          /\ call_arg # <<>>
          /\ Len(call_arg) = Len(uploaded_files)

\* C10 witness: the document collaborator was invoked with two paths.
C10_Witness ==
    /\ docs_calls = 1
    /\ Len(call_arg) = 2
    /\ scratch_calls = 0

====
